---- MODULE Spec2Model ----
(***************************************************************************)
(* RandomAccessMap (src/src/lib/utils/RandomAccessMap.ts): a Map subclass  *)
(* that keeps a dense array of its keys (keysArray) and a key -> slot      *)
(* index (keyIndexMap) so that a random entry can be drawn in O(1).        *)
(*                                                                         *)
(* The container is modelled as a record                                   *)
(*   [map, keysArray, keyIndexMap]                                         *)
(* where map is the inherited Map (a function whose DOMAIN is the set of   *)
(* present keys), keysArray is a sequence (slot i of the code is element   *)
(* i + 1 of the sequence) and keyIndexMap is a function from keys to       *)
(* 0-based slots, exactly as the code stores them.                         *)
(***************************************************************************)
EXTENDS Integers, Sequences, FiniteSets, TLC

\* ------------------------------------------------------------------ bounds
NumKeys == 3
NumValues == 2
MaxEntries == 2
MaxCalls == 3

Keys == 1..NumKeys
Values == 1..NumValues

\* undefined: what Map.prototype.get yields for an absent key (randomEntry's
\* undefined result on an empty container is the empty tuple)
Undefined == 0

Pairs == Keys \X Values
EntryBatches == UNION {[1..n -> Pairs] : n \in 0..MaxEntries}

VARIABLES
    map,               \* the inherited Map<K, V>: present keys -> values
    keysArray,         \* private keysArray: K[]
    keyIndexMap,       \* private keyIndexMap: Map<K, number>
    op,                \* the last call made on the container and its result
    distinctKeysSet,   \* keys passed to set since construction / last clear
    newKeyInserts,     \* set calls that found their key absent, since then
    successfulDeletes, \* delete calls that returned true, since then
    lastSet,           \* per key: the value of the latest set(key, .) not yet
                       \* followed by delete(key) or clear, else Undefined
    calls              \* number of calls made so far

vars == <<map, keysArray, keyIndexMap, op, distinctKeysSet, newKeyInserts,
          successfulDeletes, lastSet, calls>>

\* --------------------------------------------------- the built-in ES Map
MapHas(m, key) == key \in DOMAIN m

MapGet(m, key) == IF key \in DOMAIN m THEN m[key] ELSE Undefined

MapSet(m, key, value) ==
    [x \in (DOMAIN m) \cup {key} |-> IF x = key THEN value ELSE m[x]]

MapDelete(m, key) == [x \in (DOMAIN m) \ {key} |-> m[x]]

MapSize(m) == Cardinality(DOMAIN m)

EmptyMap == [x \in {} |-> Undefined]

\* ------------------------------------------------- JS array primitives
\* arr[i] with a 0-based i
At(arr, i) == arr[i + 1]

\* arr[i] = x for an existing slot i
AtPut(arr, i, x) == [arr EXCEPT ![i + 1] = x]

\* arr.push(x)
Push(arr, x) == Append(arr, x)

\* arr.pop()
Pop(arr) == IF Len(arr) = 0 THEN arr ELSE SubSeq(arr, 1, Len(arr) - 1)

\* --------------------------------------------------------- the container
Self == [map |-> map, keysArray |-> keysArray, keyIndexMap |-> keyIndexMap]

EmptySelf == [map |-> EmptyMap, keysArray |-> <<>>, keyIndexMap |-> EmptyMap]

\* get, has, size are inherited unchanged from Map
get(self, key) == MapGet(self.map, key)

has(self, key) == MapHas(self.map, key)

size(self) == MapSize(self.map)

\* set with the push done for every call, not only for a new key
setAlwaysPush(self, key, value) ==
    LET keysArray1 == Push(self.keysArray, key)
    IN  [map |-> MapSet(self.map, key, value),
         keysArray |-> keysArray1,
         keyIndexMap |-> MapSet(self.keyIndexMap, key, Len(keysArray1) - 1)]

\* set with keyIndexMap.set outside the isNewKey branch
setReindexOnUpdate(self, key, value) ==
    LET isNewKey == ~MapHas(self.map, key)
        keysArray1 == IF isNewKey THEN Push(self.keysArray, key)
                      ELSE self.keysArray
    IN  [map |-> MapSet(self.map, key, value),
         keysArray |-> keysArray1,
         keyIndexMap |-> MapSet(self.keyIndexMap, key, Len(keysArray1) - 1)]

\* set recording keysArray.length instead of keysArray.length - 1
setIndexOffByOne(self, key, value) ==
    LET isNewKey == ~MapHas(self.map, key)
        map1 == MapSet(self.map, key, value)
    IN  IF isNewKey
        THEN LET keysArray1 == Push(self.keysArray, key)
             IN  [map |-> map1,
                  keysArray |-> keysArray1,
                  keyIndexMap |-> MapSet(self.keyIndexMap, key,
                                         Len(keysArray1))]
        ELSE [map |-> map1,
              keysArray |-> self.keysArray,
              keyIndexMap |-> self.keyIndexMap]

\* set with super.set inside the isNewKey branch: an update is dropped
setKeepsOldValue(self, key, value) ==
    LET isNewKey == ~MapHas(self.map, key)
    IN  IF isNewKey
        THEN LET keysArray1 == Push(self.keysArray, key)
             IN  [map |-> MapSet(self.map, key, value),
                  keysArray |-> keysArray1,
                  keyIndexMap |-> MapSet(self.keyIndexMap, key,
                                         Len(keysArray1) - 1)]
        ELSE self

\* set(key, value): the container after the call
set(self, key, value) ==
    LET isNewKey == ~MapHas(self.map, key)
        map1 == MapSet(self.map, key, value)
    IN  IF isNewKey
        THEN LET keysArray1 == Push(self.keysArray, key)
             IN  [map |-> map1,
                  keysArray |-> keysArray1,
                  keyIndexMap |-> MapSet(self.keyIndexMap, key,
                                         Len(keysArray1) - 1)]
        ELSE [map |-> map1,
              keysArray |-> self.keysArray,
              keyIndexMap |-> self.keyIndexMap]

\* delete without keyIndexMap.set(lastKey, index)
deleteNoIndexUpdate(self, key) ==
    IF ~MapHas(self.map, key)
    THEN [self |-> self, ret |-> FALSE]
    ELSE LET index == MapGet(self.keyIndexMap, key)
             lastIndex == Len(self.keysArray) - 1
             lastKey == At(self.keysArray, lastIndex)
             keysArray1 == IF index # lastIndex
                           THEN AtPut(self.keysArray, index, lastKey)
                           ELSE self.keysArray
         IN  [self |-> [map |-> MapDelete(self.map, key),
                        keysArray |-> Pop(keysArray1),
                        keyIndexMap |-> MapDelete(self.keyIndexMap, key)],
              ret |-> TRUE, index |-> index, lastIndex |-> lastIndex]

\* delete without keysArray[index] = lastKey
deleteNoSlotWrite(self, key) ==
    IF ~MapHas(self.map, key)
    THEN [self |-> self, ret |-> FALSE]
    ELSE LET index == MapGet(self.keyIndexMap, key)
             lastIndex == Len(self.keysArray) - 1
             lastKey == At(self.keysArray, lastIndex)
             keyIndexMap1 == IF index # lastIndex
                             THEN MapSet(self.keyIndexMap, lastKey, index)
                             ELSE self.keyIndexMap
         IN  [self |-> [map |-> MapDelete(self.map, key),
                        keysArray |-> Pop(self.keysArray),
                        keyIndexMap |-> MapDelete(keyIndexMap1, key)],
              ret |-> TRUE, index |-> index, lastIndex |-> lastIndex]

\* delete without keyIndexMap.delete(key)
deleteKeepsIndexEntry(self, key) ==
    IF ~MapHas(self.map, key)
    THEN [self |-> self, ret |-> FALSE]
    ELSE LET index == MapGet(self.keyIndexMap, key)
             lastIndex == Len(self.keysArray) - 1
             lastKey == At(self.keysArray, lastIndex)
             swapped == index # lastIndex
             keysArray1 == IF swapped
                           THEN AtPut(self.keysArray, index, lastKey)
                           ELSE self.keysArray
             keyIndexMap1 == IF swapped
                             THEN MapSet(self.keyIndexMap, lastKey, index)
                             ELSE self.keyIndexMap
         IN  [self |-> [map |-> MapDelete(self.map, key),
                        keysArray |-> Pop(keysArray1),
                        keyIndexMap |-> keyIndexMap1],
              ret |-> TRUE, index |-> index, lastIndex |-> lastIndex]

\* delete without super.delete(key)
deleteKeepsMapEntry(self, key) ==
    IF ~MapHas(self.map, key)
    THEN [self |-> self, ret |-> FALSE]
    ELSE LET index == MapGet(self.keyIndexMap, key)
             lastIndex == Len(self.keysArray) - 1
             lastKey == At(self.keysArray, lastIndex)
             swapped == index # lastIndex
             keysArray1 == IF swapped
                           THEN AtPut(self.keysArray, index, lastKey)
                           ELSE self.keysArray
             keyIndexMap1 == IF swapped
                             THEN MapSet(self.keyIndexMap, lastKey, index)
                             ELSE self.keyIndexMap
         IN  [self |-> [map |-> self.map,
                        keysArray |-> Pop(keysArray1),
                        keyIndexMap |-> MapDelete(keyIndexMap1, key)],
              ret |-> TRUE, index |-> index, lastIndex |-> lastIndex]

\* delete without the early return for an absent key: the last slot is
\* popped and true is returned whether or not the key was there
deleteNoEarlyReturn(self, key) ==
    LET index == MapGet(self.keyIndexMap, key)
        lastIndex == Len(self.keysArray) - 1
        swapped == MapHas(self.keyIndexMap, key) /\ index # lastIndex
        keysArray1 == IF swapped
                      THEN AtPut(self.keysArray, index,
                                 At(self.keysArray, lastIndex))
                      ELSE self.keysArray
        keyIndexMap1 == IF swapped
                        THEN MapSet(self.keyIndexMap,
                                    At(self.keysArray, lastIndex), index)
                        ELSE self.keyIndexMap
    IN  [self |-> [map |-> MapDelete(self.map, key),
                   keysArray |-> Pop(keysArray1),
                   keyIndexMap |-> MapDelete(keyIndexMap1, key)],
         ret |-> TRUE, index |-> index, lastIndex |-> lastIndex]

\* delete that splices the key out and shifts every later key down a slot
deleteSplice(self, key) ==
    IF ~MapHas(self.map, key)
    THEN [self |-> self, ret |-> FALSE]
    ELSE LET index == MapGet(self.keyIndexMap, key)
             lastIndex == Len(self.keysArray) - 1
             keysArray1 == [i \in 1..lastIndex |->
                               IF i <= index THEN self.keysArray[i]
                               ELSE self.keysArray[i + 1]]
             keyIndexMap1 == [x \in (DOMAIN self.keyIndexMap) \ {key} |->
                                 IF self.keyIndexMap[x] > index
                                 THEN self.keyIndexMap[x] - 1
                                 ELSE self.keyIndexMap[x]]
         IN  [self |-> [map |-> MapDelete(self.map, key),
                        keysArray |-> keysArray1,
                        keyIndexMap |-> keyIndexMap1],
              ret |-> TRUE, index |-> index, lastIndex |-> lastIndex]

\* delete that removes from the parent Map the key found in the slot after
\* the swap, i.e. the moved key instead of the deleted one
deleteRemovesMovedKey(self, key) ==
    IF ~MapHas(self.map, key)
    THEN [self |-> self, ret |-> FALSE]
    ELSE LET index == MapGet(self.keyIndexMap, key)
             lastIndex == Len(self.keysArray) - 1
             lastKey == At(self.keysArray, lastIndex)
             swapped == index # lastIndex
             keysArray1 == IF swapped
                           THEN AtPut(self.keysArray, index, lastKey)
                           ELSE self.keysArray
             keyIndexMap1 == IF swapped
                             THEN MapSet(self.keyIndexMap, lastKey, index)
                             ELSE self.keyIndexMap
         IN  [self |-> [map |-> MapDelete(self.map, At(keysArray1, index)),
                        keysArray |-> Pop(keysArray1),
                        keyIndexMap |-> MapDelete(keyIndexMap1, key)],
              ret |-> TRUE, index |-> index, lastIndex |-> lastIndex]

\* delete without keysArray.pop()
deleteNoPop(self, key) ==
    IF ~MapHas(self.map, key)
    THEN [self |-> self, ret |-> FALSE]
    ELSE LET index == MapGet(self.keyIndexMap, key)
             lastIndex == Len(self.keysArray) - 1
             lastKey == At(self.keysArray, lastIndex)
             swapped == index # lastIndex
             keysArray1 == IF swapped
                           THEN AtPut(self.keysArray, index, lastKey)
                           ELSE self.keysArray
             keyIndexMap1 == IF swapped
                             THEN MapSet(self.keyIndexMap, lastKey, index)
                             ELSE self.keyIndexMap
         IN  [self |-> [map |-> MapDelete(self.map, key),
                        keysArray |-> keysArray1,
                        keyIndexMap |-> MapDelete(keyIndexMap1, key)],
              ret |-> TRUE, index |-> index, lastIndex |-> lastIndex]

\* delete(key): the container after the call, the returned boolean and the
\* locals index / lastIndex of the branch that removes
delete(self, key) ==
    IF ~MapHas(self.map, key)
    THEN [self |-> self, ret |-> FALSE]
    ELSE LET map1 == MapDelete(self.map, key)
             index == MapGet(self.keyIndexMap, key)
             lastIndex == Len(self.keysArray) - 1
             lastKey == At(self.keysArray, lastIndex)
             swapped == index # lastIndex
             keysArray1 == IF swapped
                           THEN AtPut(self.keysArray, index, lastKey)
                           ELSE self.keysArray
             keyIndexMap1 == IF swapped
                             THEN MapSet(self.keyIndexMap, lastKey, index)
                             ELSE self.keyIndexMap
         IN  [self |-> [map |-> map1,
                        keysArray |-> Pop(keysArray1),
                        keyIndexMap |-> MapDelete(keyIndexMap1, key)],
              ret |-> TRUE,
              index |-> index,
              lastIndex |-> lastIndex]

\* clear without this.keysArray = []
clearKeepsKeysArray(self) ==
    [map |-> EmptyMap, keysArray |-> self.keysArray, keyIndexMap |-> EmptyMap]

\* clear without this.keyIndexMap.clear()
clearKeepsIndex(self) ==
    [map |-> EmptyMap, keysArray |-> <<>>, keyIndexMap |-> self.keyIndexMap]

\* clear(): the container after the call
clear(self) ==
    [map |-> EmptyMap, keysArray |-> <<>>, keyIndexMap |-> EmptyMap]

\* randomEntry without the empty check: slot 0 of an empty array is read
randomEntryNoEmptyCheck(self, randomIndex) ==
    IF Len(self.keysArray) = 0
    THEN <<Undefined, Undefined>>
    ELSE LET randomKey == At(self.keysArray, randomIndex)
             randomValue == MapGet(self.map, randomKey)
         IN  <<randomKey, randomValue>>

\* randomEntry() when Math.floor(Math.random() * length) is randomIndex
randomEntry(self, randomIndex) ==
    IF Len(self.keysArray) = 0
    THEN <<>>
    ELSE LET randomKey == At(self.keysArray, randomIndex)
             randomValue == MapGet(self.map, randomKey)
         IN  <<randomKey, randomValue>>

\* Math.floor(Math.random() * (length - 1)): the last slot is never drawn
RandomIndicesSkipLast(self) ==
    IF Len(self.keysArray) <= 1 THEN 0..(Len(self.keysArray) - 1)
    ELSE 0..(Len(self.keysArray) - 2)

\* the indices Math.floor(Math.random() * length) can produce
RandomIndices(self) == 0..(Len(self.keysArray) - 1)

\* a constructor that hands the batch to the parent Map and bulk-loads the
\* key array from the batch, one slot per pair
constructorBulk(entries) ==
    LET keysOf == {entries[i][1] : i \in 1..Len(entries)}
        lastAt(k) == CHOOSE i \in 1..Len(entries) :
                         /\ entries[i][1] = k
                         /\ \A j \in 1..Len(entries) :
                                entries[j][1] = k => j <= i
    IN  [map |-> [k \in keysOf |-> entries[lastAt(k)][2]],
         keysArray |-> [i \in 1..Len(entries) |-> entries[i][1]],
         keyIndexMap |-> [k \in keysOf |-> lastAt(k) - 1]]

\* new RandomAccessMap(entries): each pair goes through set, in order
RECURSIVE constructor(_)
constructor(entries) ==
    IF Len(entries) = 0
    THEN EmptySelf
    ELSE LET n == Len(entries)
         IN  set(constructor(SubSeq(entries, 1, n - 1)),
                 entries[n][1], entries[n][2])

\* ------------------------------------------------- the Game scene: state
\* The scene (src/src/phaser/scenes/Game.ts) keeps the free cells of the
\* board in a RandomAccessMap, emptyCells, keyed by `${col},${row}` (here
\* the pair <<col, row>>) with the value [col, row].  Rectangles are the
\* pairs <<x, y>> of their position, in units of 1/80 pixel so that
\* SNAKE_SEGMENT_PADDING / 2 is a whole number.
VARIABLES
    snake,          \* this.snake: rectangles, head first
    food,           \* this.food: a rectangle, or NoFood for undefined
    emptyCells,     \* this.emptyCells: a RandomAccessMap record
    direction,      \* this.direction
    nextDirection,  \* this.nextDirection
    isStarted,      \* this.isStarted
    isGameOver,     \* this.isGameOver
    isHandled,      \* controlKeys[.].isHandled, per direction
    lastSpawn,      \* what spawnFood did in the last step, "none" if not run
    moves,          \* number of moveSnake calls so far
    isSprintEnabled, \* this.isSprintEnabled
    snakeSpeed,     \* this.snakeSpeed, in ms
    keyListeners,   \* the keydown / keyup listeners for Shift are registered
    pending         \* what the scene has queued: "none", "restart" (the
                    \* scene.restart of resetAndStart) or "autoStart" (the
                    \* delayedCall of initializeInput)

gameVars == <<snake, food, emptyCells, direction, nextDirection, isStarted,
              isGameOver, isHandled, lastSpawn, moves, isSprintEnabled,
              snakeSpeed, keyListeners, pending>>

\* the frames the controls have seen, for the claims about
\* processControlInput
VARIABLES
    prevActive,          \* the controls whose isActive() was true in the
                         \* previous frame
    heldSinceAccepted,   \* per control: accepted, and active in every
                         \* frame since
    accepted             \* what processControlInput returned in the last
                         \* frame, "null" for null

inputVars == <<prevActive, heldSinceAccepted, accepted>>

NoFood == <<>>

\* no frame has been processed
InputIdle ==
    /\ prevActive = {}
    /\ heldSinceAccepted = <<>>
    /\ accepted = "null"

\* the scene is not part of a run of the container alone
GameIdle ==
    /\ snake = <<>>
    /\ food = NoFood
    /\ emptyCells = EmptySelf
    /\ direction = "right"
    /\ nextDirection = "right"
    /\ isStarted = FALSE
    /\ isGameOver = FALSE
    /\ isHandled = <<>>
    /\ lastSpawn = "none"
    /\ moves = 0
    /\ isSprintEnabled = FALSE
    /\ snakeSpeed = 0
    /\ keyListeners = FALSE
    /\ pending = "none"
    /\ InputIdle

\* -------------------------------------------------------------- actions
Install(s) ==
    /\ map' = s.map
    /\ keysArray' = s.keysArray
    /\ keyIndexMap' = s.keyIndexMap

Tick ==
    /\ calls < MaxCalls
    /\ calls' = calls + 1
    /\ UNCHANGED gameVars
    /\ UNCHANGED inputVars

\* new RandomAccessMap(entries), for every batch the bounds allow
Init ==
    \E entries \in EntryBatches :
        /\ map = constructor(entries).map
        /\ keysArray = constructor(entries).keysArray
        /\ keyIndexMap = constructor(entries).keyIndexMap
        /\ op = [name |-> "constructor", entries |-> entries]
        /\ distinctKeysSet = {entries[i][1] : i \in 1..Len(entries)}
        /\ newKeyInserts =
               Cardinality({i \in 1..Len(entries) :
                   ~has(constructor(SubSeq(entries, 1, i - 1)),
                        entries[i][1])})
        /\ successfulDeletes = 0
        /\ lastSet = [k \in Keys |->
               LET at == {i \in 1..Len(entries) : entries[i][1] = k}
               IN  IF at = {} THEN Undefined
                   ELSE entries[CHOOSE i \in at : \A j \in at : j <= i][2]]
        /\ calls = 0
        /\ GameIdle

CallSet(key, value) ==
    /\ Tick
    /\ Install(set(Self, key, value))
    /\ op' = [name |-> "set", key |-> key, value |-> value,
              isNewKey |-> ~has(Self, key)]
    /\ distinctKeysSet' = distinctKeysSet \cup {key}
    /\ newKeyInserts' = IF has(Self, key) THEN newKeyInserts
                        ELSE newKeyInserts + 1
    /\ lastSet' = [lastSet EXCEPT ![key] = value]
    /\ UNCHANGED successfulDeletes

CallDelete(key) ==
    LET r == delete(Self, key)
    IN  /\ Tick
        /\ Install(r.self)
        /\ op' = IF r.ret
                 THEN [name |-> "delete", key |-> key, ret |-> TRUE,
                       index |-> r.index, lastIndex |-> r.lastIndex]
                 ELSE [name |-> "delete", key |-> key, ret |-> FALSE]
        /\ successfulDeletes' = IF r.ret THEN successfulDeletes + 1
                                ELSE successfulDeletes
        /\ lastSet' = IF r.ret THEN [lastSet EXCEPT ![key] = Undefined]
                       ELSE lastSet
        /\ UNCHANGED <<distinctKeysSet, newKeyInserts>>

CallClear ==
    /\ Tick
    /\ Install(clear(Self))
    /\ op' = [name |-> "clear", sizeBefore |-> size(Self)]
    /\ distinctKeysSet' = {}
    /\ newKeyInserts' = 0
    /\ successfulDeletes' = 0
    /\ lastSet' = [k \in Keys |-> Undefined]

CallGet(key) ==
    /\ Tick
    /\ op' = [name |-> "get", key |-> key, ret |-> get(Self, key)]
    /\ UNCHANGED <<map, keysArray, keyIndexMap, distinctKeysSet,
                   newKeyInserts, successfulDeletes, lastSet>>

CallHas(key) ==
    /\ Tick
    /\ op' = [name |-> "has", key |-> key, ret |-> has(Self, key)]
    /\ UNCHANGED <<map, keysArray, keyIndexMap, distinctKeysSet,
                   newKeyInserts, successfulDeletes, lastSet>>

CallSize ==
    /\ Tick
    /\ op' = [name |-> "size", ret |-> size(Self)]
    /\ UNCHANGED <<map, keysArray, keyIndexMap, distinctKeysSet,
                   newKeyInserts, successfulDeletes, lastSet>>

\* randomEntry that takes the drawn entry out of the container
CallRandomEntryRemoves ==
    /\ Tick
    /\ \/ /\ Len(keysArray) = 0
          /\ op' = [name |-> "randomEntry", ret |-> randomEntry(Self, 0)]
          /\ UNCHANGED <<map, keysArray, keyIndexMap>>
       \/ \E randomIndex \in RandomIndices(Self) :
              /\ op' = [name |-> "randomEntry", randomIndex |-> randomIndex,
                        ret |-> randomEntry(Self, randomIndex)]
              /\ Install(delete(Self, At(keysArray, randomIndex)).self)
    /\ UNCHANGED <<distinctKeysSet, newKeyInserts, successfulDeletes,
                   lastSet>>

CallRandomEntry ==
    /\ Tick
    /\ \/ /\ Len(keysArray) = 0
          /\ op' = [name |-> "randomEntry", ret |-> randomEntry(Self, 0)]
       \/ \E randomIndex \in RandomIndices(Self) :
              op' = [name |-> "randomEntry", randomIndex |-> randomIndex,
                     ret |-> randomEntry(Self, randomIndex)]
    /\ UNCHANGED <<map, keysArray, keyIndexMap, distinctKeysSet,
                   newKeyInserts, successfulDeletes, lastSet>>

Next ==
    \/ \E key \in Keys, value \in Values : CallSet(key, value)
    \/ \E key \in Keys : CallDelete(key)
    \/ CallClear
    \/ \E key \in Keys : CallGet(key)
    \/ \E key \in Keys : CallHas(key)
    \/ CallSize
    \/ CallRandomEntry

Spec == Init /\ [][Next]_vars

\* ------------------------------------------------ the Game scene: model
\* game-config.ts, scaled down to a board TLC can cover
GRID_COLUMNS == 3
GRID_ROWS == 2
SNAKE_INITIAL_LENGTH == 3
SNAKE_INITIAL_POSITION_X == 2
SNAKE_INITIAL_POSITION_Y == 0
SNAKE_INITIAL_DIRECTION == "right"
MaxMoves == 3

\* ms between two moves
SNAKE_INITIAL_SPEED == 150

\* 0.7, in tenths
SNAKE_SPRINT_FACTOR == 7

\* pixels per cell: scale.width / GRID_COLUMNS and scale.height / GRID_ROWS
CellPixels == 40

\* gridUtils.cellWidth, gridUtils.cellHeight (1/80 pixel)
cellWidth == 80 * CellPixels
cellHeight == 80 * CellPixels

\* ((GRID_COLUMNS + GRID_ROWS) / 2) * 0.05 pixel, in 1/80 pixel
SNAKE_SEGMENT_PADDING == 2 * (GRID_COLUMNS + GRID_ROWS)

Directions == <<"left", "right", "up", "down">>

opposite(d) ==
    CASE d = "left" -> "right"
      [] d = "right" -> "left"
      [] d = "up" -> "down"
      [] d = "down" -> "up"

\* grid-utils.ts
getColFromX(x) == x \div cellWidth
getRowFromY(y) == y \div cellHeight
getColRowFromXY(x, y) == <<getColFromX(x), getRowFromY(y)>>
getXFromCol(col) == col * cellWidth
getYFromRow(row) == row * cellHeight
getXYFromColRow(col, row) == <<getXFromCol(col), getYFromRow(row)>>

\* the cell a rectangle lies in
CellOf(rect) == getColRowFromXY(rect[1], rect[2])

\* initializeGrid: clear, then set every cell, columns outside, rows inside
RECURSIVE initializeGridFrom(_, _)
initializeGridFrom(ec, n) ==
    IF n = GRID_COLUMNS * GRID_ROWS
    THEN ec
    ELSE LET col == n \div GRID_ROWS
             row == n % GRID_ROWS
         IN  initializeGridFrom(set(ec, <<col, row>>, <<col, row>>), n + 1)

initializeGrid(ec) == initializeGridFrom(clear(ec), 0)

\* createSnake: the segments, head first, and emptyCells without their cells
RECURSIVE createSnakeFrom(_, _, _)
createSnakeFrom(segments, ec, i) ==
    IF i >= SNAKE_INITIAL_LENGTH
    THEN [snake |-> segments, emptyCells |-> ec]
    ELSE LET startX == SNAKE_INITIAL_POSITION_X
             startY == SNAKE_INITIAL_POSITION_Y
             segment == <<(startX - i) * cellWidth
                              + SNAKE_SEGMENT_PADDING \div 2,
                          startY * cellHeight + SNAKE_SEGMENT_PADDING \div 2>>
             col == startX - i
             row == startY
         IN  createSnakeFrom(Append(segments, segment),
                             delete(ec, <<col, row>>).self, i + 1)

createSnake(ec) == createSnakeFrom(<<>>, ec, 0)

\* spawnFood, first part: the cell of the current food goes back into
\* emptyCells
spawnFoodRestore(ec, currentFood) ==
    IF currentFood # NoFood
    THEN LET foodCell == CellOf(currentFood)
         IN  set(ec, foodCell, foodCell)
    ELSE ec

\* spawnFood, with randomIndex the index randomEntry draws: the new food
\* (or NoFood) and emptyCells after the call
spawnFood(ec, currentFood, randomIndex) ==
    LET ec1 == spawnFoodRestore(ec, currentFood)
        entry == randomEntry(ec1, randomIndex)
    IN  IF size(ec1) = 0
        THEN [food |-> NoFood, emptyCells |-> ec1]
        ELSE IF entry = <<>>
        THEN [food |-> NoFood, emptyCells |-> ec1]
        ELSE LET col == entry[2][1]
                 row == entry[2][2]
                 xy == getXYFromColRow(col, row)
             IN  [food |-> <<xy[1] + SNAKE_SEGMENT_PADDING \div 2,
                             xy[2] + SNAKE_SEGMENT_PADDING \div 2>>,
                  emptyCells |-> delete(ec1, <<col, row>>).self]

\* the indices spawnFood's randomEntry can draw (0 stands for no draw)
SpawnIndices(ec, currentFood) ==
    LET ec1 == spawnFoodRestore(ec, currentFood)
    IN  IF Len(ec1.keysArray) = 0 THEN {0} ELSE RandomIndices(ec1)

\* snake-manager.ts
calculateNewHeadPosition(head, d) ==
    CASE d = "left" -> <<head[1] - cellWidth, head[2]>>
      [] d = "right" -> <<head[1] + cellWidth, head[2]>>
      [] d = "up" -> <<head[1], head[2] - cellHeight>>
      [] d = "down" -> <<head[1], head[2] + cellHeight>>

isWithinBounds(x, y) ==
    LET maxX == GRID_COLUMNS * cellWidth
        maxY == GRID_ROWS * cellHeight
    IN  x >= 0 /\ x < maxX /\ y >= 0 /\ y < maxY

checkSelfCollisionSkipTail(segments, newHeadCol, newHeadRow) ==
    \E i \in 1..(Len(segments) - 1) :
        CellOf(segments[i]) = <<newHeadCol, newHeadRow>>

checkSelfCollision(segments, newHeadCol, newHeadRow) ==
    \E i \in 1..Len(segments) : CellOf(segments[i]) = <<newHeadCol, newHeadRow>>

checkFoodCollision(f, newHeadCol, newHeadRow) ==
    IF f = NoFood THEN FALSE ELSE CellOf(f) = <<newHeadCol, newHeadRow>>

addSnakeHead(segments, x, y, ec) ==
    [snake |-> <<<<x, y>>>> \o segments,
     emptyCells |-> delete(ec, getColRowFromXY(x, y)).self]

removeSnakeTailKeeps(segments, ec) ==
    IF Len(segments) = 0
    THEN [snake |-> segments, emptyCells |-> ec]
    ELSE LET tailCell == CellOf(segments[Len(segments)])
         IN  [snake |-> segments,
              emptyCells |-> set(ec, tailCell, tailCell)]

removeSnakeTail(segments, ec) ==
    IF Len(segments) = 0
    THEN [snake |-> segments, emptyCells |-> ec]
    ELSE LET tail == segments[Len(segments)]
             tailCell == CellOf(tail)
         IN  [snake |-> SubSeq(segments, 1, Len(segments) - 1),
              emptyCells |-> set(ec, tailCell, tailCell)]

\* control-manager.ts, processControlInput: the keys are visited in order
\* until one is accepted; active is the set of directions whose isActive()
\* is true in this frame
RECURSIVE processControlInputFromAllowOpposite(_, _, _, _)
processControlInputFromAllowOpposite(handled, active, currentDirection, i) ==
    IF i > Len(Directions)
    THEN [isHandled |-> handled, newDirection |-> "null"]
    ELSE LET d == Directions[i]
         IN  IF d \in active
             THEN IF ~handled[d] /\ currentDirection # d
                  THEN [isHandled |-> [handled EXCEPT ![d] = TRUE],
                        newDirection |-> d]
                  ELSE processControlInputFromAllowOpposite(
                           handled, active, currentDirection, i + 1)
             ELSE processControlInputFromAllowOpposite(
                      [handled EXCEPT ![d] = FALSE], active,
                      currentDirection, i + 1)

RECURSIVE processControlInputFromNeverHandled(_, _, _, _)
processControlInputFromNeverHandled(handled, active, currentDirection, i) ==
    IF i > Len(Directions)
    THEN [isHandled |-> handled, newDirection |-> "null"]
    ELSE LET d == Directions[i]
         IN  IF d \in active
             THEN IF /\ ~handled[d]
                     /\ currentDirection # d
                     /\ currentDirection # opposite(d)
                  THEN [isHandled |-> handled, newDirection |-> d]
                  ELSE processControlInputFromNeverHandled(
                           handled, active, currentDirection, i + 1)
             ELSE processControlInputFromNeverHandled(
                      [handled EXCEPT ![d] = FALSE], active,
                      currentDirection, i + 1)

RECURSIVE processControlInputFrom(_, _, _, _)
processControlInputFrom(handled, active, currentDirection, i) ==
    IF i > Len(Directions)
    THEN [isHandled |-> handled, newDirection |-> "null"]
    ELSE LET d == Directions[i]
         IN  IF d \in active
             THEN IF /\ ~handled[d]
                     /\ currentDirection # d
                     /\ currentDirection # opposite(d)
                  THEN [isHandled |-> [handled EXCEPT ![d] = TRUE],
                        newDirection |-> d]
                  ELSE processControlInputFrom(handled, active,
                                               currentDirection, i + 1)
             ELSE processControlInputFrom([handled EXCEPT ![d] = FALSE],
                                          active, currentDirection, i + 1)

processControlInput(handled, active, currentDirection) ==
    processControlInputFrom(handled, active, currentDirection, 1)

DirectionSet == {Directions[i] : i \in 1..Len(Directions)}

\* enableSprint / disableSprint on the pair isSprintEnabled, snakeSpeed:
\* snakeSpeed *= 1 - SPEED_SPRINT_FACTOR, snakeSpeed /= 1 - SPEED_SPRINT_FACTOR
Sprint == [isSprintEnabled |-> isSprintEnabled, snakeSpeed |-> snakeSpeed]

enableSprintNoGuard(s) ==
    [isSprintEnabled |-> TRUE,
     snakeSpeed |-> (s.snakeSpeed * (10 - SNAKE_SPRINT_FACTOR)) \div 10]

enableSprint(s) ==
    IF s.isSprintEnabled
    THEN s
    ELSE [isSprintEnabled |-> TRUE,
          snakeSpeed |-> (s.snakeSpeed * (10 - SNAKE_SPRINT_FACTOR)) \div 10]

disableSprint(s) ==
    IF ~s.isSprintEnabled
    THEN s
    ELSE [isSprintEnabled |-> FALSE,
          snakeSpeed |-> (s.snakeSpeed * 10) \div (10 - SNAKE_SPRINT_FACTOR)]

InstallSprint(s) ==
    /\ isSprintEnabled' = s.isSprintEnabled
    /\ snakeSpeed' = s.snakeSpeed

\* the fields gameOver() reads and writes
Flags ==
    [isGameOver |-> isGameOver, isStarted |-> isStarted,
     keyListeners |-> keyListeners, isSprintEnabled |-> isSprintEnabled,
     snakeSpeed |-> snakeSpeed]

\* gameOver(): returns at once when the game is over already; else sets
\* the flags, removes the keydown / keyup listeners and disables sprint
gameOver(f) ==
    IF f.isGameOver
    THEN f
    ELSE LET off == disableSprint([isSprintEnabled |-> f.isSprintEnabled,
                                   snakeSpeed |-> f.snakeSpeed])
         IN  [isGameOver |-> TRUE, isStarted |-> FALSE,
              keyListeners |-> FALSE,
              isSprintEnabled |-> off.isSprintEnabled,
              snakeSpeed |-> off.snakeSpeed]

\* initializeGrid and initializeGameObjects: currentFood is this.food as
\* the scene finds it, randomIndex the index randomEntry draws
initializeGameObjects(currentFood, randomIndex) ==
    LET made == createSnake(initializeGrid(emptyCells))
        spawned == spawnFood(made.emptyCells, currentFood, randomIndex)
    IN  [snake |-> made.snake, food |-> spawned.food,
         emptyCells |-> spawned.emptyCells]

CreateIndices(currentFood) ==
    SpawnIndices(createSnake(initializeGrid(EmptySelf)).emptyCells,
                 currentFood)

\* create(): initializeGameState, initializeInput, initializeGrid and
\* initializeGameObjects of a first scene start (this.food is undefined)
InitGame ==
    \E randomIndex \in CreateIndices(NoFood) :
        LET made == createSnake(initializeGrid(EmptySelf))
            spawned == spawnFood(made.emptyCells, NoFood, randomIndex)
        IN  /\ snake = made.snake
            /\ food = spawned.food
            /\ emptyCells = spawned.emptyCells
            /\ direction = SNAKE_INITIAL_DIRECTION
            /\ nextDirection = SNAKE_INITIAL_DIRECTION
            /\ isStarted = FALSE
            /\ isGameOver = FALSE
            /\ isHandled = [d \in DirectionSet |-> FALSE]
            /\ lastSpawn = IF spawned.food = NoFood THEN "full" ELSE "placed"
            /\ moves = 0
            /\ isSprintEnabled = FALSE
            /\ snakeSpeed = SNAKE_INITIAL_SPEED
            /\ keyListeners = TRUE
            /\ pending = "none"
            /\ InputIdle
            /\ map = EmptyMap
            /\ keysArray = <<>>
            /\ keyIndexMap = EmptyMap
            /\ op = [name |-> "none"]
            /\ distinctKeysSet = {}
            /\ newKeyInserts = 0
            /\ successfulDeletes = 0
            /\ lastSet = [k \in Keys |-> Undefined]
            /\ calls = 0

\* handleGameStart (start button or space bar on the tutorial screen)
HandleGameStart ==
    /\ ~isStarted
    /\ ~isGameOver
    /\ isStarted' = TRUE
    /\ lastSpawn' = "none"
    /\ UNCHANGED <<snake, food, emptyCells, direction, nextDirection,
                   isGameOver, isHandled, moves, isSprintEnabled,
                   snakeSpeed, keyListeners, pending>>
    /\ UNCHANGED inputVars
    /\ UNCHANGED vars

\* gameOver(), reached from moveSnake
GameOver ==
    LET f == gameOver(Flags)
    IN  /\ isGameOver' = f.isGameOver
        /\ isStarted' = f.isStarted
        /\ keyListeners' = f.keyListeners
        /\ isSprintEnabled' = f.isSprintEnabled
        /\ snakeSpeed' = f.snakeSpeed

\* moveSnake() with this.nextDirection already set to nextDir
MoveSnake(nextDir) ==
    LET head == snake[1]
        new == calculateNewHeadPosition(head, nextDir)
        newCell == getColRowFromXY(new[1], new[2])
        eating == checkFoodCollision(food, newCell[1], newCell[2])
        added == addSnakeHead(snake, new[1], new[2], emptyCells)
        trimmed == removeSnakeTail(added.snake, added.emptyCells)
    IN  /\ moves < MaxMoves
        /\ moves' = moves + 1
        /\ direction' = nextDir
        /\ IF ~isWithinBounds(new[1], new[2])
           THEN /\ GameOver
                /\ lastSpawn' = "none"
                /\ UNCHANGED <<snake, food, emptyCells>>
           ELSE IF checkSelfCollision(snake, newCell[1], newCell[2])
           THEN /\ GameOver
                /\ lastSpawn' = "none"
                /\ UNCHANGED <<snake, food, emptyCells>>
           ELSE IF ~eating
           THEN /\ snake' = trimmed.snake
                /\ emptyCells' = trimmed.emptyCells
                /\ lastSpawn' = "none"
                /\ UNCHANGED <<food, isGameOver, isStarted, keyListeners,
                               isSprintEnabled, snakeSpeed>>
           ELSE \E randomIndex \in SpawnIndices(added.emptyCells, food) :
                    LET spawned == spawnFood(added.emptyCells, food,
                                             randomIndex)
                    IN  /\ snake' = added.snake
                        /\ food' = spawned.food
                        /\ emptyCells' = spawned.emptyCells
                        /\ lastSpawn' = IF spawned.food = NoFood
                                        THEN "full" ELSE "placed"
                        /\ UNCHANGED <<isGameOver, isStarted, keyListeners,
                                       isSprintEnabled, snakeSpeed>>

\* update(time) past its early return, on a frame in which the controls
\* in active are held; timeElapsed is time >= lastMoveTime + snakeSpeed
UpdateFrame(active, timeElapsed) ==
    LET input == processControlInput(isHandled, active, direction)
        isDirectionChanged == input.newDirection # "null"
        nextDir == IF isDirectionChanged THEN input.newDirection
                   ELSE nextDirection
    IN  /\ isHandled' = input.isHandled
        /\ nextDirection' = nextDir
        /\ IF isDirectionChanged \/ timeElapsed
           THEN MoveSnake(nextDir)
           ELSE /\ lastSpawn' = "none"
                /\ UNCHANGED <<snake, food, emptyCells, direction,
                               isStarted, isGameOver, moves, keyListeners,
                               isSprintEnabled, snakeSpeed>>
        /\ pending' = pending
        /\ UNCHANGED inputVars
        /\ UNCHANGED vars

UpdateNoEarlyReturn(active, timeElapsed) == UpdateFrame(active, timeElapsed)

\* update(time): nothing but the statistics while the game is not started
\* or is over (isPaused is never set)
Update(active, timeElapsed) ==
    IF ~isStarted \/ isGameOver
    THEN /\ UNCHANGED gameVars
         /\ UNCHANGED inputVars
         /\ UNCHANGED vars
    ELSE UpdateFrame(active, timeElapsed)

\* keydown / keyup of Shift, while the listeners are registered
KeydownShift ==
    /\ keyListeners
    /\ InstallSprint(enableSprint(Sprint))

KeyupShift ==
    /\ keyListeners
    /\ InstallSprint(disableSprint(Sprint))

\* pointerdown / pointerup on the sprint button, which handleGameStart
\* shows on touch devices
SprintButtonDown ==
    /\ isStarted \/ isGameOver
    /\ InstallSprint(enableSprint(Sprint))

SprintButtonUp ==
    /\ isStarted \/ isGameOver
    /\ InstallSprint(disableSprint(Sprint))

SprintEvent ==
    /\ \/ KeydownShift
       \/ KeyupShift
       \/ SprintButtonDown
       \/ SprintButtonUp
    /\ lastSpawn' = "none"
    /\ UNCHANGED <<snake, food, emptyCells, direction, nextDirection,
                   isStarted, isGameOver, isHandled, moves, keyListeners,
                   pending>>
    /\ UNCHANGED inputVars
    /\ UNCHANGED vars

\* resetAndStart (restart button or space bar after gameOver): disables
\* sprint and queues the restart of the scene
ResetAndStart ==
    /\ isGameOver
    /\ pending = "none"
    /\ InstallSprint(disableSprint(Sprint))
    /\ pending' = "restart"
    /\ lastSpawn' = "none"
    /\ UNCHANGED <<snake, food, emptyCells, direction, nextDirection,
                   isStarted, isGameOver, isHandled, moves, keyListeners>>
    /\ UNCHANGED inputVars
    /\ UNCHANGED vars

\* create() of the restarted scene: the fields of the scene object keep
\* their values, this.food among them, unless create() assigns them
Create ==
    /\ pending = "restart"
    /\ \E randomIndex \in CreateIndices(food) :
           LET objects == initializeGameObjects(food, randomIndex)
           IN  /\ snake' = objects.snake
               /\ food' = objects.food
               /\ emptyCells' = objects.emptyCells
               /\ lastSpawn' = IF objects.food = NoFood
                               THEN "full" ELSE "placed"
    /\ isGameOver' = FALSE
    /\ direction' = SNAKE_INITIAL_DIRECTION
    /\ nextDirection' = SNAKE_INITIAL_DIRECTION
    /\ keyListeners' = TRUE
    /\ isHandled' = [d \in DirectionSet |-> FALSE]
    /\ pending' = "autoStart"
    /\ UNCHANGED <<isStarted, moves, isSprintEnabled, snakeSpeed>>
    /\ UNCHANGED inputVars
    /\ UNCHANGED vars

\* the delayedCall(0, ...) of initializeInput after a restart; the scene's
\* clock runs it in the first step of the restarted scene, before that
\* step calls update()
AutoStart ==
    /\ pending = "autoStart"
    /\ isStarted' = TRUE
    /\ pending' = "none"
    /\ lastSpawn' = "none"
    /\ UNCHANGED <<snake, food, emptyCells, direction, nextDirection,
                   isGameOver, isHandled, moves, isSprintEnabled,
                   snakeSpeed, keyListeners>>
    /\ UNCHANGED inputVars
    /\ UNCHANGED vars

NextGame ==
    \/ HandleGameStart
    \/ /\ pending # "autoStart"
       /\ \E active \in SUBSET DirectionSet, timeElapsed \in BOOLEAN :
              Update(active, timeElapsed)
    \/ SprintEvent
    \/ ResetAndStart
    \/ Create
    \/ AutoStart

SpecGame == InitGame /\ [][NextGame]_gameVars

\* ------------------------------------- the controls, frame after frame
\* processControlInput as update() calls it on every frame of a running
\* game, without the board: createControlKeys, then frames in which any
\* set of controls is active
InitInput ==
    /\ isHandled = [d \in DirectionSet |-> FALSE]
    /\ direction = SNAKE_INITIAL_DIRECTION
    /\ nextDirection = SNAKE_INITIAL_DIRECTION
    /\ prevActive = {}
    /\ heldSinceAccepted = [d \in DirectionSet |-> FALSE]
    /\ accepted = "null"
    /\ isStarted = TRUE
    /\ isGameOver = FALSE
    /\ snake = <<>>
    /\ food = NoFood
    /\ emptyCells = EmptySelf
    /\ lastSpawn = "none"
    /\ moves = 0
    /\ isSprintEnabled = FALSE
    /\ snakeSpeed = SNAKE_INITIAL_SPEED
    /\ keyListeners = TRUE
    /\ pending = "none"
    /\ map = EmptyMap
    /\ keysArray = <<>>
    /\ keyIndexMap = EmptyMap
    /\ op = [name |-> "none"]
    /\ distinctKeysSet = {}
    /\ newKeyInserts = 0
    /\ successfulDeletes = 0
    /\ lastSet = [k \in Keys |-> Undefined]
    /\ calls = 0

boardVars == <<snake, food, emptyCells, isStarted, isGameOver, lastSpawn,
               moves, isSprintEnabled, snakeSpeed, keyListeners, pending>>

\* one frame of update(): processControlInput, nextDirection = newDirection
\* when a control is accepted, and moveSnake's direction = nextDirection
Frame(active) ==
    LET input == processControlInput(isHandled, active, direction)
        isDirectionChanged == input.newDirection # "null"
        nextDir == IF isDirectionChanged THEN input.newDirection
                   ELSE nextDirection
    IN  /\ isHandled' = input.isHandled
        /\ nextDirection' = nextDir
        /\ direction' = nextDir
        /\ accepted' = input.newDirection
        /\ prevActive' = active
        /\ heldSinceAccepted' =
               [d \in DirectionSet |->
                   IF d = input.newDirection THEN TRUE
                   ELSE IF d \notin active THEN FALSE
                   ELSE heldSinceAccepted[d]]
        /\ UNCHANGED boardVars
        /\ UNCHANGED vars

\* a restart of the scene: createControlKeys makes the controls anew and
\* initializeGameState resets the directions
CreateControlKeys ==
    /\ isHandled' = [d \in DirectionSet |-> FALSE]
    /\ direction' = SNAKE_INITIAL_DIRECTION
    /\ nextDirection' = SNAKE_INITIAL_DIRECTION
    /\ prevActive' = {}
    /\ heldSinceAccepted' = [d \in DirectionSet |-> FALSE]
    /\ accepted' = "null"
    /\ UNCHANGED boardVars
    /\ UNCHANGED vars

NextInput ==
    \/ \E active \in SUBSET DirectionSet : Frame(active)
    \/ CreateControlKeys

frameVars == <<gameVars, inputVars>>

SpecInput == InitInput /\ [][NextInput]_frameVars

\* ---------------------------------------------------------------- claims

\* slots of keysArray that hold key
SlotsOf(key) == {i \in 1..Len(keysArray) : keysArray[i] = key}

\* C1: after every operation the three structures have the same size:
\* keysArray.length = the map's size = keyIndexMap.size.
C1_SameSize ==
    /\ Len(keysArray) = MapSize(map)
    /\ MapSize(map) = MapSize(keyIndexMap)

C1_Witness ==
    /\ op.name = "set"
    /\ op.isNewKey
    /\ successfulDeletes >= 1
    /\ Len(keysArray) = 3
    /\ MapSize(keyIndexMap) = 3

\* C2: after every operation every present key k has a keyIndexMap entry
\* and keysArray[keyIndexMap.get(k)] is k, also for the key that delete
\* moved from the last slot into the vacated slot.
C2_IndexPointsAtKey ==
    \A k \in DOMAIN map :
        /\ k \in DOMAIN keyIndexMap
        /\ keyIndexMap[k] \in 0..(Len(keysArray) - 1)
        /\ At(keysArray, keyIndexMap[k]) = k

C2_Witness ==
    /\ op.name = "delete"
    /\ op.ret
    /\ op.index # op.lastIndex
    /\ Len(keysArray) >= 1

\* C3: after every operation keysArray holds each present key exactly once
\* and no key that is absent from the map (no duplicates, no stale keys, no
\* holes).
C3_ExactlyPresentKeys ==
    /\ \A i \in 1..Len(keysArray) : keysArray[i] \in Keys
    /\ \A k \in Keys :
           Cardinality(SlotsOf(k)) = IF k \in DOMAIN map THEN 1 ELSE 0

C3_Witness ==
    /\ op.name = "set"
    /\ ~op.isNewKey
    /\ successfulDeletes >= 1
    /\ Len(keysArray) >= 2

\* C4: set(k, v2) on a present key changes only the value stored for k:
\* size, keysArray and keyIndexMap are unchanged, every other key keeps its
\* value, and get(k) is v2 afterwards.
C4_SetPresentOnlyValue ==
    [][(op'.name = "set" /\ op'.key \in DOMAIN map) =>
          /\ MapSize(map') = MapSize(map)
          /\ DOMAIN map' = DOMAIN map
          /\ keysArray' = keysArray
          /\ keyIndexMap' = keyIndexMap
          /\ MapGet(map', op'.key) = op'.value
          /\ \A j \in DOMAIN map \ {op'.key} : map'[j] = map[j]]_vars

C4_Witness ==
    /\ op.name = "set"
    /\ ~op.isNewKey
    /\ MapGet(map, op.key) = op.value
    /\ \E j \in DOMAIN map : j # op.key /\ map[j] # op.value

\* C5: set(k, v) on an absent key appends k as the new last slot, records
\* keyIndexMap[k] = the size before the call, stores v, increases size by
\* one and leaves the slot and value of every other key unchanged.
C5_SetAbsentAppends ==
    [][(op'.name = "set" /\ op'.key \notin DOMAIN map) =>
          /\ keysArray' = Append(keysArray, op'.key)
          /\ op'.key \in DOMAIN keyIndexMap'
          /\ keyIndexMap'[op'.key] = MapSize(map)
          /\ MapGet(map', op'.key) = op'.value
          /\ MapSize(map') = MapSize(map) + 1
          /\ \A j \in DOMAIN map :
                 /\ j \in DOMAIN map' /\ map'[j] = map[j]
                 /\ j \in DOMAIN keyIndexMap'
                 /\ keyIndexMap'[j] = keyIndexMap[j]]_vars

C5_Witness ==
    /\ op.name = "set"
    /\ op.isNewKey
    /\ Len(keysArray) >= 2
    /\ keysArray[Len(keysArray)] = op.key

\* C6: delete(k) on a present key returns true; afterwards has(k) is false,
\* get(k) is undefined, k is in neither keysArray nor keyIndexMap, and size
\* has decreased by exactly one.
C6_DeletePresent ==
    [][(op'.name = "delete" /\ op'.key \in DOMAIN map) =>
          /\ op'.ret = TRUE
          /\ ~MapHas(map', op'.key)
          /\ MapGet(map', op'.key) = Undefined
          /\ \A i \in 1..Len(keysArray') : keysArray'[i] # op'.key
          /\ op'.key \notin DOMAIN keyIndexMap'
          /\ MapSize(map') = MapSize(map) - 1]_vars

C6_Witness ==
    /\ op.name = "delete"
    /\ op.ret
    /\ SlotsOf(op.key) = {}
    /\ MapSize(map) >= 1

\* C7: delete(k) on an absent key (also on an empty container) returns
\* false and leaves the map, keysArray, keyIndexMap and size unchanged.
C7_DeleteAbsentNoEffect ==
    [][(op'.name = "delete" /\ op'.key \notin DOMAIN map) =>
          /\ op'.ret = FALSE
          /\ map' = map
          /\ keysArray' = keysArray
          /\ keyIndexMap' = keyIndexMap
          /\ MapSize(map') = MapSize(map)]_vars

C7_Witness ==
    /\ op.name = "delete"
    /\ ~op.ret
    /\ MapSize(map) >= 1

\* C8: when delete(k) removes a key at a slot p that is not the last slot,
\* the key of the last slot is written into slot p and its keyIndexMap entry
\* becomes p, then the last slot is removed; when p is the last slot it is
\* simply removed and no key is moved.
C8_SwapWithLast ==
    [][(op'.name = "delete" /\ op'.key \in DOMAIN map) =>
          LET p == keyIndexMap[op'.key]
              last == Len(keysArray) - 1
              lastKey == At(keysArray, last)
          IN  /\ Len(keysArray') = Len(keysArray) - 1
              /\ p # last =>
                     /\ At(keysArray', p) = lastKey
                     /\ lastKey \in DOMAIN keyIndexMap'
                     /\ keyIndexMap'[lastKey] = p
              /\ p = last =>
                     /\ keysArray' = SubSeq(keysArray, 1, last)
                     /\ \A j \in DOMAIN map' :
                            /\ j \in DOMAIN keyIndexMap'
                            /\ keyIndexMap'[j] = keyIndexMap[j]]_vars

C8_Witness ==
    /\ op.name = "delete"
    /\ op.ret
    /\ op.index = 0
    /\ op.lastIndex = 2
    /\ Len(keysArray) = 2

\* C9: a successful delete(k) changes the slot of at most one surviving
\* key: every key other than k and other than the key that was in the last
\* slot keeps its keysArray slot and its keyIndexMap value.
C9_OthersKeepSlot ==
    [][(op'.name = "delete" /\ op'.ret) =>
          \A j \in DOMAIN map \ {op'.key, keysArray[Len(keysArray)]} :
              /\ j \in DOMAIN keyIndexMap'
              /\ keyIndexMap'[j] = keyIndexMap[j]
              /\ \A i \in 1..Len(keysArray) :
                     keysArray[i] = j =>
                         /\ i \in 1..Len(keysArray')
                         /\ keysArray'[i] = j]_vars

C9_Witness ==
    /\ op.name = "delete"
    /\ op.ret
    /\ op.index = 1
    /\ op.lastIndex = 2
    /\ \E j \in DOMAIN map : keyIndexMap[j] = 0

\* C10 as stated: size equals the number of distinct keys ever set minus
\* the number of successful delete calls (counted from construction or the
\* last clear, so that it is zero after clear).
C10_Original ==
    MapSize(map) = Cardinality(distinctKeysSet) - successfulDeletes

\* C10 (amended): size equals the number of set calls that found their key
\* absent minus the number of successful delete calls, both counted from
\* construction or the last clear.
C10_SizeIsInsertsMinusDeletes ==
    MapSize(map) = newKeyInserts - successfulDeletes

C10_Witness ==
    /\ op.name = "set"
    /\ op.isNewKey
    /\ successfulDeletes >= 1
    /\ newKeyInserts > Cardinality(distinctKeysSet)

\* C11: after set(k, v) every later get(k) returns v and has(k) is true,
\* across any calls on other keys (deletes that move k included), until k is
\* deleted, cleared or overwritten by another set(k, .).
C11_SetThenGet ==
    /\ \A k \in Keys :
           lastSet[k] # Undefined =>
               /\ has(Self, k)
               /\ get(Self, k) = lastSet[k]
    /\ (op.name = "get" /\ lastSet[op.key] # Undefined) =>
           op.ret = lastSet[op.key]
    /\ (op.name = "has" /\ lastSet[op.key] # Undefined) => op.ret = TRUE

\* the last call was a delete of another key that moved a live key, which
\* is still readable with the value it was set to
C11_Witness ==
    /\ op.name = "delete"
    /\ op.ret
    /\ op.index # op.lastIndex
    /\ Len(keysArray) > op.index
    /\ lastSet[At(keysArray, op.index)] # Undefined
    /\ get(Self, At(keysArray, op.index)) = lastSet[At(keysArray, op.index)]

\* C12: delete(k) does not change what any other key j shows: has(j) and
\* get(j) are the same after the call as before, whatever slot k had.
C12_DeleteLeavesOthers ==
    [][op'.name = "delete" =>
          \A j \in Keys \ {op'.key} :
              /\ MapHas(map', j) = MapHas(map, j)
              /\ MapGet(map', j) = MapGet(map, j)]_vars

C12_Witness ==
    /\ op.name = "delete"
    /\ op.ret
    /\ op.index # op.lastIndex
    /\ MapSize(map) = 2
    /\ \E j1 \in DOMAIN map, j2 \in DOMAIN map : map[j1] # map[j2]

\* C13: on a container with no entries (fresh, after clear, or after every
\* key was deleted) randomEntry returns undefined, size is 0 and has(k) is
\* false for every k.
C13_EmptyContainer ==
    MapSize(map) = 0 =>
        /\ randomEntry(Self, 0) = <<>>
        /\ RandomIndices(Self) = {}
        /\ size(Self) = 0
        /\ \A k \in Keys : ~has(Self, k)
        /\ op.name = "randomEntry" => op.ret = <<>>
        /\ op.name = "size" => op.ret = 0
        /\ op.name = "has" => op.ret = FALSE

C13_Witness ==
    /\ MapSize(map) = 0
    /\ op.name = "randomEntry"
    /\ op.ret = <<>>
    /\ successfulDeletes >= 1

\* C14: on a non-empty container randomEntry returns a pair (key, value)
\* whose key is present and whose value is the one stored for it, and every
\* present key is selected by some index in [0, size).
C14_RandomEntryPresent ==
    MapSize(map) > 0 =>
        /\ op.name = "randomEntry" =>
               /\ Len(op.ret) = 2
               /\ op.ret[1] \in DOMAIN map
               /\ op.ret[2] = map[op.ret[1]]
        /\ RandomIndices(Self) \subseteq 0..(size(Self) - 1)
        /\ \A i \in RandomIndices(Self) :
               /\ Len(randomEntry(Self, i)) = 2
               /\ randomEntry(Self, i)[1] \in DOMAIN map
               /\ randomEntry(Self, i)[2] = map[randomEntry(Self, i)[1]]
        /\ \A k \in DOMAIN map :
               \E i \in RandomIndices(Self) :
                   randomEntry(Self, i) = <<k, map[k]>>

C14_Witness ==
    /\ op.name = "randomEntry"
    /\ MapSize(map) >= 2
    /\ successfulDeletes >= 1
    /\ op.randomIndex = Len(keysArray) - 1
    /\ op.ret = <<keysArray[Len(keysArray)], map[keysArray[Len(keysArray)]]>>

\* C16: clear empties all three structures from any state: size is 0,
\* keysArray and keyIndexMap are empty, has(k) is false for every k, and a
\* set(k, v) that follows places k in slot 0.
C16_ClearEmpties ==
    [][/\ op'.name = "clear" =>
              /\ MapSize(map') = 0
              /\ keysArray' = <<>>
              /\ DOMAIN keyIndexMap' = {}
              /\ \A k \in Keys : ~MapHas(map', k)
       /\ (op.name = "clear" /\ op'.name = "set") =>
              /\ keysArray' = <<op'.key>>
              /\ op'.key \in DOMAIN keyIndexMap'
              /\ keyIndexMap'[op'.key] = 0]_vars

C16_Witness ==
    /\ op.name = "clear"
    /\ op.sizeBefore >= 2
    /\ Len(keysArray) = 0

\* an empty container on which set is called for each pair, first to last
RECURSIVE C17_SetEachInOrder(_, _)
C17_SetEachInOrder(self, entries) ==
    IF Len(entries) = 0
    THEN self
    ELSE C17_SetEachInOrder(set(self, entries[1][1], entries[1][2]),
                            Tail(entries))

\* C17: a container constructed from a batch of pairs is in exactly the
\* state of an empty container after set was called for each pair in order;
\* I1-I3 hold on it, and a key repeated in the batch appears once, with its
\* last value.
C17_ConstructorIsSets ==
    op.name = "constructor" =>
        /\ Self = C17_SetEachInOrder(EmptySelf, op.entries)
        /\ Len(keysArray) = MapSize(map)
        /\ MapSize(map) = MapSize(keyIndexMap)
        /\ DOMAIN map = {op.entries[i][1] : i \in 1..Len(op.entries)}
        /\ \A k \in DOMAIN map :
               /\ Cardinality(SlotsOf(k)) = 1
               /\ k \in DOMAIN keyIndexMap
               /\ keyIndexMap[k] + 1 \in SlotsOf(k)
               /\ \A i \in 1..Len(op.entries) :
                      (/\ op.entries[i][1] = k
                       /\ \A j \in (i + 1)..Len(op.entries) :
                              op.entries[j][1] # k)
                          => map[k] = op.entries[i][2]

C17_Witness ==
    /\ op.name = "constructor"
    /\ Len(op.entries) = 2
    /\ op.entries[1][1] = op.entries[2][1]
    /\ op.entries[1][2] # op.entries[2][2]
    /\ Len(keysArray) = 1

\* a well-formed container over the keys and values of the model
C18_IsContainer(self) ==
    /\ DOMAIN self.map \subseteq Keys
    /\ \A k \in DOMAIN self.map : self.map[k] \in Values
    /\ self.keysArray \in Seq(Keys)
    /\ DOMAIN self.keyIndexMap \subseteq Keys
    /\ \A k \in DOMAIN self.keyIndexMap : self.keyIndexMap[k] \in Nat

\* C18: in every reachable state every operation, for every argument, has a
\* normal result: set, delete and clear yield a well-formed container,
\* delete a boolean, get a value or undefined, has a boolean, size a
\* number, randomEntry a (key, value) pair or undefined.
C18_OperationsDefined ==
    /\ C18_IsContainer(Self)
    /\ C18_IsContainer(clear(Self))
    /\ size(Self) \in Nat
    /\ \A k \in Keys :
           /\ has(Self, k) \in BOOLEAN
           /\ get(Self, k) \in (IF has(Self, k) THEN Values ELSE {Undefined})
           /\ delete(Self, k).ret \in BOOLEAN
           /\ delete(Self, k).ret = has(Self, k)
           /\ C18_IsContainer(delete(Self, k).self)
           /\ delete(Self, k).ret =>
                  /\ delete(Self, k).index \in 0..delete(Self, k).lastIndex
                  /\ delete(Self, k).lastIndex = Len(keysArray) - 1
           /\ \A v \in Values : C18_IsContainer(set(Self, k, v))
    /\ IF Len(keysArray) = 0
       THEN randomEntry(Self, 0) = <<>>
       ELSE \A i \in RandomIndices(Self) : randomEntry(Self, i) \in Pairs
    /\ op.name = "randomEntry" => (op.ret = <<>> \/ op.ret \in Pairs)
    /\ op.name = "get" => op.ret \in Values \cup {Undefined}
    /\ op.name \in {"has", "delete"} => op.ret \in BOOLEAN
    /\ op.name = "size" => op.ret \in Nat

C18_Witness ==
    /\ MapSize(map) = 0
    /\ op.name = "delete"
    /\ ~op.ret
    /\ calls >= 2

\* C19: get, has, size and randomEntry leave the map, keysArray and
\* keyIndexMap unchanged, for present and absent keys, empty or not.
C19_ReadsDoNotMutate ==
    [][op'.name \in {"get", "has", "size", "randomEntry"} =>
          /\ map' = map
          /\ keysArray' = keysArray
          /\ keyIndexMap' = keyIndexMap]_vars

C19_Witness ==
    /\ op.name = "randomEntry"
    /\ Len(keysArray) >= 2
    /\ op.ret[1] = keysArray[1]
    /\ calls >= 1

\* the cells occupied by snake segments
SnakeCells == {CellOf(snake[i]) : i \in 1..Len(snake)}

\* C20: whenever spawnFood places food (at scene start and after each time
\* the snake eats) the chosen cell is not occupied by any snake segment,
\* the head that has just moved onto the previous food cell included.
C20_FoodOnFreeCell ==
    lastSpawn = "placed" => CellOf(food) \notin SnakeCells

\* the cell a move in direction d takes the head to
NewHeadCell(d) ==
    LET new == calculateNewHeadPosition(snake[1], d)
    IN  getColRowFromXY(new[1], new[2])

\* the cells of the board
GridCells == (0..(GRID_COLUMNS - 1)) \X (0..(GRID_ROWS - 1))

\* C21: a move whose new head cell is outside the grid, or is occupied by
\* a snake segment (the tail included), ends the game and leaves the
\* snake, the food and emptyCells unchanged.
C21_CollisionEndsGame ==
    [][(moves' = moves + 1
          /\ (NewHeadCell(direction') \notin GridCells
                \/ NewHeadCell(direction') \in SnakeCells))
       => /\ isGameOver'
          /\ snake' = snake
          /\ food' = food
          /\ emptyCells' = emptyCells]_gameVars

\* the game ended on a move into the cell of the tail
C21_Witness ==
    /\ isGameOver
    /\ Len(snake) > SNAKE_INITIAL_LENGTH
    /\ NewHeadCell(direction) = CellOf(snake[Len(snake)])

\* C22: a move that does not end the game makes the snake one segment
\* longer when the new head cell is the food cell, and leaves its length
\* unchanged otherwise.
C22_LengthOnMove ==
    [][(moves' = moves + 1 /\ ~isGameOver')
       => Len(snake') =
              IF food # NoFood /\ CellOf(food) = NewHeadCell(direction')
              THEN Len(snake) + 1
              ELSE Len(snake)]_gameVars

\* one move has eaten and a later one has not
C22_Witness ==
    /\ ~isGameOver
    /\ moves >= 2
    /\ lastSpawn = "none"
    /\ Len(snake) = SNAKE_INITIAL_LENGTH + 1

\* the keys of emptyCells
EmptyCellKeys == DOMAIN emptyCells.map

\* the cell of the food, if there is food
FoodCells == IF food = NoFood THEN {} ELSE {CellOf(food)}

\* C23: after scene initialization and after every moveSnake call,
\* emptyCells holds exactly the cells occupied neither by a snake segment
\* nor by the food, and its size is GRID_COLUMNS * GRID_ROWS minus the
\* snake's length minus one if there is food.
C23_EmptyCellsExact ==
    /\ EmptyCellKeys = GridCells \ (SnakeCells \cup FoodCells)
    /\ size(emptyCells) =
           GRID_COLUMNS * GRID_ROWS - Len(snake) - Cardinality(FoodCells)

\* C24: when the snake has eaten the last food and occupies every cell of
\* the board, spawnFood has found emptyCells empty and placed no food.
C24_FullBoardNoFood ==
    (Len(snake) = GRID_COLUMNS * GRID_ROWS /\ SnakeCells = GridCells)
        => (food = NoFood /\ size(emptyCells) = 0)

\* the cells createSnake puts the snake on
InitialSnakeCells ==
    {<<SNAKE_INITIAL_POSITION_X - i, SNAKE_INITIAL_POSITION_Y>> :
        i \in 0..(SNAKE_INITIAL_LENGTH - 1)}

\* create() has just run, for the first time or after a restart
JustInitialized ==
    /\ lastSpawn # "none"
    /\ pending = "autoStart" \/ moves = 0

\* C25: after every scene (re)initialization, a restart with the previous
\* game's food still referenced included, no initial snake cell is in
\* emptyCells and the new food is not on an initial snake cell.
C25_InitialCellsTaken ==
    JustInitialized =>
        /\ InitialSnakeCells \cap EmptyCellKeys = {}
        /\ FoodCells \cap InitialSnakeCells = {}

\* C26: the snake never reverses: the direction a move applies is never
\* the opposite of the direction of the move before it (of the initial
\* direction, for the first move of a game).
C26_NeverReverses ==
    [][moves' = moves + 1 => direction' # opposite(direction)]_gameVars

\* two turns have brought the snake to the opposite of its first direction
C26_Witness ==
    /\ moves >= 2
    /\ ~isGameOver
    /\ direction = opposite(SNAKE_INITIAL_DIRECTION)

\* what update() may move, turn or end
Board == <<snake, food, direction, emptyCells, moves>>

\* C29: once gameOver has run nothing moves until the scene is restarted:
\* snake, food, direction and emptyCells stay as they are on every later
\* frame, another gameOver call changes nothing, and the restart leaves
\* isGameOver false and both directions at the initial direction.
C29_GameOverFreezes ==
    /\ [](isGameOver => gameOver(Flags) = Flags)
    /\ [][(isGameOver /\ isGameOver')
              => Board' = Board]_gameVars
    /\ [][(isGameOver /\ ~isGameOver')
              => /\ direction' = SNAKE_INITIAL_DIRECTION
                 /\ nextDirection' = SNAKE_INITIAL_DIRECTION]_gameVars

\* a game has ended and the scene has been created again
C29_Witness ==
    /\ ~isGameOver
    /\ pending = "autoStart"
    /\ moves > 0

\* snakeSpeed with the sprint factor applied once
SprintSpeed == (SNAKE_INITIAL_SPEED * (10 - SNAKE_SPRINT_FACTOR)) \div 10

\* C30: sprint never stacks: the factor is applied exactly once while
\* isSprintEnabled is true and not at all while it is false, and
\* isSprintEnabled is false right after gameOver and right after
\* resetAndStart.
C30_SprintNeverStacks ==
    /\ [](snakeSpeed = IF isSprintEnabled THEN SprintSpeed
                       ELSE SNAKE_INITIAL_SPEED)
    /\ [][(~isGameOver /\ isGameOver') => ~isSprintEnabled']_gameVars
    /\ [][(pending = "none" /\ pending' = "restart")
              => ~isSprintEnabled']_gameVars

\* sprint is on again after gameOver has turned it off
C30_Witness ==
    /\ isGameOver
    /\ isSprintEnabled
    /\ snakeSpeed = SprintSpeed

\* C27: a control that processControlInput has accepted and that has been
\* active in every frame since is not accepted again: a held key turns the
\* snake at most once per press.
C27_HeldKeyAcceptedOnce ==
    [][accepted' # "null" => ~heldSinceAccepted[accepted']]_frameVars

\* a control held since it was accepted is active in a frame in which the
\* direction is perpendicular to it again, and is not accepted
C27_Witness ==
    \E d \in DirectionSet :
        /\ heldSinceAccepted[d]
        /\ d \in prevActive
        /\ direction # d
        /\ direction # opposite(d)
        /\ accepted = "null"

\* C28: a control that was inactive on the previous frame and is active on
\* this frame, with a direction perpendicular to the current direction, is
\* accepted on this frame unless an earlier control of the list is
\* accepted first; no release is missed because the loop returned early.
C28_NewPressAccepted ==
    [][\A i \in 1..Len(Directions) :
          (/\ Directions[i] \notin prevActive
           /\ Directions[i] \in prevActive'
           /\ direction # Directions[i]
           /\ direction # opposite(Directions[i]))
          => \E j \in 1..i : accepted' = Directions[j]]_frameVars

====
